---- MODULE Spec2Model ----
(***************************************************************************)
(* A model of the caching and analytics core of the Kite swing-trading     *)
(* dashboard backend (src/gtt_api_server.py, src/kite_utils.py).           *)
(*                                                                         *)
(* The subsystems share this module, each with its own specification:      *)
(*   SpecHealth  the daily file cache (_fetch_with_cache) driven by the    *)
(*               technical_health / market_health handlers;                *)
(*   SpecConc    the same file cache with two requests handled at the      *)
(*               same time;                                                *)
(*   SpecApi     the brokerage session, the 60-second GTT cache and the    *)
(*               handlers that read holdings and GTT orders;               *)
(*   SpecSess    the same session with two requests handled at the same    *)
(*               time;                                                     *)
(*   SpecRisk    the pure holdings / risk-join computations;               *)
(*   SpecEma     the EMA computations, their in-memory cache and the       *)
(*               items and summaries of the health handlers;               *)
(*   SpecSweep   the maintenance sweep of the cache directory.             *)
(* A specification leaves the variables of the other subsystems alone.     *)
(***************************************************************************)
EXTENDS Integers, Sequences, FiniteSets, TLC

VARIABLES
    \* ---- file cache -----------------------------------------------------
    today,      \* the calendar date of the local clock (datetime.now())
    files,      \* DATA_DIR: [cache_key -> [date -> file content]]
    calls,      \* one _fetch_with_cache activation per thread
    reqs,       \* one health handler activation per request slot
    provLog,    \* history: provider calls today per cache key: 0, 1, 2 = more
    okLog,      \* history: a fetch for the key finished writing today's file
    afterOk,    \* history: a provider call for the key was made after that
    \* ---- brokerage session and API cache ---------------------------------
    kite,         \* the global KiteConnect handle
    access_token, \* the global access token
    gtt_cache,    \* _gtt_cache: {'data', 'fetched_at'}
    now,          \* time.time(), in seconds
    logins,       \* login attempts so far (names the handles and tokens)
    ev,           \* history: what the last handler did
    holdAt,       \* history: time of the previous brokerage holdings call
    gttFailed,    \* history: the last brokerage get_gtts call raised
    hand,         \* one handler activation per server thread
    \* ---- holdings and risk join ------------------------------------------
    holdings,     \* the list kite.holdings() returned
    gtt_orders,   \* the list kite.get_gtts() returned
    out,          \* the payload of the last handler applied to them
    \* ---- EMA analysis ----------------------------------------------------
    ema_cache,    \* _ema_cache: [(cache_key, date) -> result]
    emaEv,        \* history: the last calculate_ema / get_ema_data call
    health,       \* the payload of the last health handler
    \* ---- cache maintenance ------------------------------------------------
    data_dir,     \* the file names in DATA_DIR at server start
    sweep         \* history: the last cleanup_old_cache call

fileVars == <<today, files, calls, reqs, provLog, okLog, afterOk>>
apiVars  == <<kite, access_token, gtt_cache, now, logins, ev, holdAt,
              gttFailed, hand>>
riskVars == <<holdings, gtt_orders, out>>
emaVars  == <<ema_cache, emaEv, health>>
sweepVars == <<data_dir, sweep>>
vars     == <<today, files, calls, reqs, provLog, okLog, afterOk,
              kite, access_token, gtt_cache, now, logins, ev, holdAt,
              gttFailed, hand,
              holdings, gtt_orders, out,
              ema_cache, emaEv, health, data_dir, sweep>>

(***************************************************************************)
(*                       THE DAILY FILE CACHE                              *)
(***************************************************************************)

\* Bounds of the file-cache model.
MaxDay  == 2        \* calendar dates 1..MaxDay

\* len(df) >= 50 / len(data) < 50
MinRows == 50
\* ThreadPoolExecutor(max_workers=min(len(uncached), 8))
MaxWorkers == 8

Keys    == {"A", "B"}               \* cache keys (symbols, INDEX_<symbol>)
KeyOrder == <<"A", "B">>            \* iteration order of symbols_data
Dates   == 1..MaxDay
Reqs    == {"r1", "r2"}             \* request slots (Flask handler threads)
Workers == Keys \cup {"main"}       \* pool worker per symbol, and the handler
Threads == Reqs \X Workers

\* ---- file contents ------------------------------------------------------
\* exists: the path names a file; loads: json.load and pd.DataFrame accept it;
\* rows: number of records; close: the records carry a 'Close' field.
NoFile  == [exists |-> FALSE, loads |-> FALSE, close |-> FALSE, rows |-> 0]
Partial == [exists |-> TRUE,  loads |-> FALSE, close |-> FALSE, rows |-> 0]
JsonFile(c, n) == [exists |-> TRUE, loads |-> TRUE, close |-> c, rows |-> n]

\* What may lie in DATA_DIR for today before the server looks at it.
InitFiles == {NoFile, Partial, JsonFile(FALSE, 0), JsonFile(FALSE, MinRows),
              JsonFile(TRUE, MinRows - 1), JsonFile(TRUE, MinRows)}

\* ---- provider outcomes (yf.download) -------------------------------------
Raises == [raises |-> TRUE, close |-> FALSE, rows |-> 0]
Frame(c, n) == [raises |-> FALSE, close |-> c, rows |-> n]
\* an exception, an empty frame, no 'Close' column, too few rows, a year of bars
ProviderOutcomes == {Raises, Frame(FALSE, 0), Frame(FALSE, MinRows),
                     Frame(TRUE, MinRows - 1), Frame(TRUE, MinRows)}

\* ---- return values of _fetch_with_cache ----------------------------------
RetNone   == [kind |-> "none",   close |-> FALSE, rows |-> 0, from |-> "-"]
RetRaised == [kind |-> "raised", close |-> FALSE, rows |-> 0, from |-> "-"]
RetSeries(c, n, f) == [kind |-> "series", close |-> c, rows |-> n, from |-> f]

\* data.reset_index().to_dict('records'); json.dump(cache_data, f, default=str)
\* one record per row, one field per column
Serialize(d) == JsonFile(d.close, d.rows)

\* mutants of CacheValid: an off-by-one row floor; no row floor at all
CacheValidStrict(c) == c.close /\ c.rows > MinRows
CacheValidNoLen(c) == c.close

\* 'Close' in df.columns and len(df) >= 50                      (line 121)
CacheValid(c) == c.close /\ c.rows >= MinRows

\* mutant of FetchValid: the row floor forgotten
FetchValidNoLen(d) == d.rows # 0 /\ d.close

\* the three checks on the downloaded frame               (lines 133-143)
FetchValid(d) == d.rows # 0 /\ d.close /\ ~(d.rows < MinRows)

\* mutant of FetchResult: the provider's exception is not caught
FetchResultNoCatch(d) ==
    IF d.raises THEN "raised"
    ELSE IF FetchValid(d) THEN "write"
    ELSE "none"

\* the outcome of the try block around yf.download        (lines 130-151)
\* "write": go on to write the cache file; otherwise the value returned
FetchResult(d) ==
    IF d.raises THEN "none"           \* except Exception: return None
    ELSE IF FetchValid(d) THEN "write"
    ELSE "none"

IdleCall == [pc |-> "idle", key |-> "A", date |-> 1, data |-> Raises,
             ret |-> RetNone, pre |-> NoFile, unlinked |-> FALSE,
             prov |-> 0, wrote |-> FALSE, linked |-> FALSE, raced |-> FALSE]

\* prov and lastOut are histories of the request: the provider calls it made
\* per symbol, and what the provider answered to the last of them
IdleReq == [pc |-> "idle", day |-> 1, syms |-> {}, uncached |-> {},
            todo |-> <<>>, resp |-> {}, status |-> "-",
            prov |-> [k \in Keys |-> 0], lastOut |-> [k \in Keys |-> "none"]]

\* what the provider answered, in the words of the handler's warnings
OutcomeKind(d) ==
    IF d.raises THEN "raised"
    ELSE IF d.rows = 0 THEN "empty"
    ELSE IF ~d.close THEN "noclose"
    ELSE IF d.rows < MinRows THEN "short"
    ELSE "ok"

File(k, d) == files[k][d]
CacheFile(t) == files[calls[t].key][calls[t].date]

\* ---- _fetch_with_cache, one step per file-system or provider access -----

Goto(t, label) == calls' = [calls EXCEPT ![t].pc = label]

\* mutant of TodayDate: the date the server was started on
StartDate(clock) == 1

\* today_date = datetime.now().strftime('%Y-%m-%d')           (line 105)
TodayDate(clock) == clock

\* today_date = ...; cache_file = DATA_DIR / f"{cache_key}_{today_date}.json"
Begin(t, k) ==
    calls' = [calls EXCEPT ![t] =
                 [IdleCall EXCEPT !.pc = "exists", !.key = k,
                                  !.date = TodayDate(today),
                                  !.pre = File(k, TodayDate(today))]]

\* if cache_file.exists():                                       (line 108)
Exists(t) ==
    /\ calls[t].pc = "exists"
    /\ Goto(t, IF CacheFile(t).exists THEN "load" ELSE "fetch")
    /\ UNCHANGED <<today, files, reqs, provLog, okLog, afterOk>>
    /\ UNCHANGED <<apiVars, riskVars, emaVars, sweepVars>>

\* what open + json.load + pd.DataFrame + the checks make of the file
\* (lines 111-124): the label the call goes to next
LoadOutcome(c) ==
    IF ~c.exists \/ ~c.loads THEN "exc_exists"     \* except ...: (line 125)
    ELSE IF c.rows = 0 THEN "unlink"               \* if not cached_data:
    ELSE IF CacheValid(c) THEN "return"            \* return df
    ELSE "unlink"                                  \* invalid structure

Load(t) ==
    /\ calls[t].pc = "load"
    /\ LET c == CacheFile(t)
           o == LoadOutcome(c)
       IN  calls' = [calls EXCEPT ![t] =
                IF o = "return"
                THEN [@ EXCEPT !.pc = "done",
                               !.ret = RetSeries(c.close, c.rows, "cache")]
                ELSE [@ EXCEPT !.pc = o]]
    /\ UNCHANGED <<today, files, reqs, provLog, okLog, afterOk>>
    /\ UNCHANGED <<apiVars, riskVars, emaVars, sweepVars>>

\* Path.unlink(): the path names no file any more; a writer that holds the
\* file open keeps writing into an inode the path no longer names.
Unlinked(t, label) ==
    LET k == calls[t].key
        d == calls[t].date
    IN  /\ files' = [files EXCEPT ![k][d] = NoFile]
        /\ calls' = [u \in Threads |->
              IF u = t THEN [calls[t] EXCEPT !.pc = label, !.unlinked = TRUE]
              ELSE IF calls[u].key = k /\ calls[u].date = d /\ calls[u].linked
                   THEN [calls[u] EXCEPT !.linked = FALSE]
                   ELSE calls[u]]

\* cache_file.unlink() inside the try block (lines 115, 124): a missing file
\* raises FileNotFoundError, which the except clause of line 125 catches
UnlinkTry(t) ==
    /\ calls[t].pc = "unlink"
    /\ IF CacheFile(t).exists
       THEN Unlinked(t, "fetch")
       ELSE Goto(t, "exc_exists") /\ UNCHANGED files
    /\ UNCHANGED <<today, reqs, provLog, okLog, afterOk>>
    /\ UNCHANGED <<apiVars, riskVars, emaVars, sweepVars>>

\* if cache_file.exists():                                       (line 127)
ExcExists(t) ==
    /\ calls[t].pc = "exc_exists"
    /\ Goto(t, IF CacheFile(t).exists THEN "exc_unlink" ELSE "fetch")
    /\ UNCHANGED <<today, files, reqs, provLog, okLog, afterOk>>
    /\ UNCHANGED <<apiVars, riskVars, emaVars, sweepVars>>

\* cache_file.unlink() inside the except clause (line 128): a missing file
\* raises FileNotFoundError out of _fetch_with_cache
ExcUnlink(t) ==
    /\ calls[t].pc = "exc_unlink"
    /\ IF CacheFile(t).exists
       THEN Unlinked(t, "fetch")
       ELSE /\ calls' = [calls EXCEPT ![t].pc = "done", ![t].ret = RetRaised]
            /\ UNCHANGED files
    /\ UNCHANGED <<today, reqs, provLog, okLog, afterOk>>
    /\ UNCHANGED <<apiVars, riskVars, emaVars, sweepVars>>

\* data = yf.download(yf_symbol, period='1y', progress=False) and the checks
\* on it (lines 132-143)
Fetch(t) ==
    /\ calls[t].pc = "fetch"
    /\ \E d \in ProviderOutcomes :
         LET k == calls[t].key
             o == FetchResult(d)
         IN  /\ calls' = [calls EXCEPT ![t] =
                   IF o = "write"
                   THEN [@ EXCEPT !.pc = "open_w", !.data = d, !.prov = @ + 1]
                   ELSE [@ EXCEPT !.pc = "done", !.data = d, !.prov = @ + 1,
                            !.ret = IF o = "none" THEN RetNone ELSE RetRaised]]
             /\ reqs' = [reqs EXCEPT ![t[1]].prov[k] = @ + 1,
                            ![t[1]].lastOut[k] = OutcomeKind(d)]
             /\ provLog' = [provLog EXCEPT ![k] = IF @ < 2 THEN @ + 1 ELSE @]
             /\ afterOk' = [afterOk EXCEPT ![k] = @ \/ okLog[k]]
    /\ UNCHANGED <<today, files, okLog>>
    /\ UNCHANGED <<apiVars, riskVars, emaVars, sweepVars>>

\* with open(cache_file, 'w') as f:  creates or truncates the file (line 145)
\* the calls that hold the file of call t open for writing
Writers(t) ==
    {u \in Threads \ {t} : /\ calls[u].pc = "dump"
                           /\ calls[u].linked
                           /\ calls[u].key = calls[t].key
                           /\ calls[u].date = calls[t].date}

OpenW(t) ==
    /\ calls[t].pc = "open_w"
    /\ files' = [files EXCEPT ![calls[t].key][calls[t].date] = Partial]
    /\ calls' = [u \in Threads |->
          IF u = t
          THEN [calls[t] EXCEPT !.pc = "dump", !.linked = TRUE,
                                !.wrote = TRUE, !.raced = Writers(t) # {}]
          ELSE IF u \in Writers(t) THEN [calls[u] EXCEPT !.raced = TRUE]
          ELSE calls[u]]
    /\ UNCHANGED <<today, reqs, provLog, okLog, afterOk>>
    /\ UNCHANGED <<apiVars, riskVars, emaVars, sweepVars>>

\* what the file holds when call t closes it: its records, or, when another
\* call was writing the same file, possibly a mixture of both that json.load
\* rejects
Written(t) ==
    IF calls[t].raced THEN {Serialize(calls[t].data), Partial}
    ELSE {Serialize(calls[t].data)}

\* json.dump(cache_data, f, default=str); close; return data (lines 146-148)
Dump(t) ==
    /\ calls[t].pc = "dump"
    /\ LET k == calls[t].key
           d == calls[t].date
       IN  /\ \E c \in Written(t) :
                 files' = IF calls[t].linked
                          THEN [files EXCEPT ![k][d] = c]
                          ELSE files
           /\ okLog' = [okLog EXCEPT ![k] = TRUE]
    /\ calls' = [calls EXCEPT ![t].pc = "done", ![t].linked = FALSE,
                    ![t].ret = RetSeries(calls[t].data.close,
                                         calls[t].data.rows, "provider")]
    /\ UNCHANGED <<today, reqs, provLog, afterOk>>
    /\ UNCHANGED <<apiVars, riskVars, emaVars, sweepVars>>

FetchStep(t) ==
    \/ Exists(t) \/ Load(t) \/ UnlinkTry(t) \/ ExcExists(t) \/ ExcUnlink(t)
    \/ Fetch(t) \/ OpenW(t) \/ Dump(t)

\* ---- get_technical_health / get_market_health ----------------------------
\* The two handlers share the pre-warm and the loop; technical_health takes
\* its symbols from the active GTT orders, market_health from a fixed table.

Main(r) == <<r, "main">>

\* symbols_data built; today_date; uncached = [... if not (...).exists()]
\* (lines 502-515, 630-634)
Uncached(S) == {s \in S : ~File(s, today).exists}

ReqStart(r, S) ==
    /\ reqs[r].pc = "idle"
    /\ reqs' = [reqs EXCEPT ![r] =
           [IdleReq EXCEPT !.pc = IF Uncached(S) = {} THEN "loop" ELSE "prewarm",
                           !.day = today, !.syms = S,
                           !.uncached = Uncached(S),
                           !.todo = SelectSeq(KeyOrder, LAMBDA k : k \in S)]]
    /\ UNCHANGED <<today, files, calls, provLog, okLog, afterOk>>
    /\ UNCHANGED <<apiVars, riskVars, emaVars, sweepVars>>

\* ThreadPoolExecutor(max_workers=min(len(uncached), 8)): a pool thread takes
\* the next task, get_stock_data_with_cache(*t)        (lines 518-519, 637-638)
Running(r) == {s \in reqs[r].uncached :
                   calls[<<r, s>>].pc \notin {"idle", "done"}}
PoolSize(r) == IF Cardinality(reqs[r].uncached) < MaxWorkers
               THEN Cardinality(reqs[r].uncached) ELSE MaxWorkers

WorkerBegin(r, s) ==
    /\ reqs[r].pc = "prewarm"
    /\ s \in reqs[r].uncached
    /\ calls[<<r, s>>].pc = "idle"
    /\ Cardinality(Running(r)) < PoolSize(r)
    /\ Begin(<<r, s>>, s)
    /\ UNCHANGED <<today, files, reqs, provLog, okLog, afterOk>>
    /\ UNCHANGED <<apiVars, riskVars, emaVars, sweepVars>>

\* leaving the with block and list(executor.map(...)): waits for every task,
\* and re-raises what a task raised into the handler's except clause
PrewarmJoin(r) ==
    /\ reqs[r].pc = "prewarm"
    /\ \A s \in reqs[r].uncached : calls[<<r, s>>].pc = "done"
    /\ reqs' = [reqs EXCEPT ![r] =
          IF \E s \in reqs[r].uncached : calls[<<r, s>>].ret.kind = "raised"
          THEN [@ EXCEPT !.pc = "done", !.status = "error", !.resp = {}]
          ELSE [@ EXCEPT !.pc = "loop"]]
    /\ calls' = [t \in Threads |->
                    IF t[1] = r /\ t[2] # "main" THEN IdleCall ELSE calls[t]]
    /\ UNCHANGED <<today, files, provLog, okLog, afterOk>>
    /\ UNCHANGED <<apiVars, riskVars, emaVars, sweepVars>>

\* for symbol, exchange in symbols_data.items():
\*     stock_data = get_stock_data_with_cache(symbol, exchange)   (line 524)
LoopCall(r) ==
    /\ reqs[r].pc = "loop"
    /\ reqs[r].todo # <<>>
    /\ calls[Main(r)].pc = "idle"
    /\ Begin(Main(r), Head(reqs[r].todo))
    /\ UNCHANGED <<today, files, reqs, provLog, okLog, afterOk>>
    /\ UNCHANGED <<apiVars, riskVars, emaVars, sweepVars>>

\* if stock_data is None: continue; ...; technical_health.append(health_data)
\* (lines 526-556); an exception ends the handler in its except clause
LoopReturn(r) ==
    /\ reqs[r].pc = "loop"
    /\ calls[Main(r)].pc = "done"
    /\ LET c == calls[Main(r)]
       IN  reqs' = [reqs EXCEPT ![r] =
              IF c.ret.kind = "raised"
              THEN [@ EXCEPT !.pc = "done", !.status = "error", !.resp = {}]
              ELSE IF c.ret.kind = "none"
              THEN [@ EXCEPT !.todo = Tail(@)]
              ELSE [@ EXCEPT !.todo = Tail(@), !.resp = @ \cup {c.key}]]
    /\ calls' = [calls EXCEPT ![Main(r)] = IdleCall]
    /\ UNCHANGED <<today, files, provLog, okLog, afterOk>>
    /\ UNCHANGED <<apiVars, riskVars, emaVars, sweepVars>>

\* return jsonify({'technical_health': ..., 'summary': ...}) (lines 574-577)
Respond(r) ==
    /\ reqs[r].pc = "loop"
    /\ reqs[r].todo = <<>>
    /\ calls[Main(r)].pc = "idle"
    /\ reqs' = [reqs EXCEPT ![r].pc = "done", ![r].status = "ok"]
    /\ UNCHANGED <<today, files, calls, provLog, okLog, afterOk>>
    /\ UNCHANGED <<apiVars, riskVars, emaVars, sweepVars>>

\* the handler thread is free for the next request
ReqEnd(r) ==
    /\ reqs[r].pc = "done"
    /\ reqs' = [reqs EXCEPT ![r] = IdleReq]
    /\ UNCHANGED <<today, files, calls, provLog, okLog, afterOk>>
    /\ UNCHANGED <<apiVars, riskVars, emaVars, sweepVars>>

\* midnight passes on the local clock, between two _fetch_with_cache calls;
\* the histories of the day start afresh
AdvanceDay ==
    /\ today < MaxDay
    /\ \A t \in Threads : calls[t].pc = "idle"
    /\ today' = today + 1
    /\ provLog' = [k \in Keys |-> 0]
    /\ okLog' = [k \in Keys |-> FALSE]
    /\ afterOk' = [k \in Keys |-> FALSE]
    /\ UNCHANGED <<files, calls, reqs>>
    /\ UNCHANGED <<apiVars, riskVars, emaVars, sweepVars>>

\* ---- the other subsystems at rest ----------------------------------------
NoHandle == [some |-> FALSE, sess |-> 0, authed |-> FALSE]   \* kite = None
NoToken  == [some |-> FALSE, sess |-> 0]             \* access_token = None
NoData   == [some |-> FALSE, sess |-> 0, asof |-> 0] \* _gtt_cache['data'] = None
\* history of the last handler: nothing handled yet
NoEvent  == [op |-> "-", login |-> "none", gttRead |-> FALSE,
             gttCalled |-> FALSE, gttRaised |-> FALSE, prevFail |-> FALSE,
             holdRead |-> FALSE, holdCalled |-> FALSE,
             via |-> 0,
             pre |-> [data |-> NoData, fetched_at |-> 0], ret |-> NoData,
             prevHold |-> -1, status |-> "-",
             needLogin |-> FALSE, attempts |-> 0, payload |-> "-"]

\* the server threads that handle requests at the same time
SessThreads == {"t1", "t2"}
\* a server thread with no request
IdleHandler == [pc |-> "idle", op |-> "-", hold |-> "-", gtts |-> "-",
                status |-> "-"]

ApiAtRest ==
    /\ kite = NoHandle
    /\ access_token = NoToken
    /\ gtt_cache = [data |-> NoData, fetched_at |-> 0]
    /\ now = 0
    /\ logins = 0
    /\ ev = NoEvent
    /\ holdAt = -1
    /\ gttFailed = FALSE
    /\ hand = [t \in SessThreads |-> IdleHandler]

\* no payload computed yet
NoSummary == [total_stocks |-> 0, total_investment |-> 0, total_open_risk |-> 0,
              total_capital_risk |-> 0, positive_capital_risk |-> 0,
              total_profit |-> 0]
NoOut == [op |-> "-", status |-> "-", rows |-> <<>>, summary |-> NoSummary]

RiskAtRest ==
    /\ holdings = <<>>
    /\ gtt_orders = <<>>
    /\ out = NoOut

\* ---- EMA analysis at rest -------------------------------------------------
EmaKeys == {"A", "B", "INDEX_N"}     \* symbols, and INDEX_<safe_symbol>
Absent == [some |-> FALSE, v |-> 0]              \* None in a result
NoEma  == [some |-> FALSE, num |-> 0, den |-> 1] \* None from calculate_ema
NoSeries == [some |-> FALSE, len |-> 0, base |-> 0, prev |-> 0, last |-> 0]
NoResult == [some |-> FALSE, current_price |-> 0,
             ema |-> <<Absent, Absent, Absent, Absent>>]
NoEmaEvent == [op |-> "-", key |-> "-", series |-> NoSeries, period |-> 0,
               value |-> NoEma, hit |-> FALSE, result |-> NoResult]
NoHealth == [op |-> "-", status |-> "-", items |-> <<>>,
             summary |-> [total |-> 0, bullish |-> 0, bearish |-> 0]]

EmaAtRest ==
    /\ ema_cache = [k \in EmaKeys |-> [d \in Dates |-> NoResult]]
    /\ emaEv = NoEmaEvent
    /\ health = NoHealth

\* ---- cache maintenance at rest --------------------------------------------
NoSweep == [done |-> FALSE, days_to_keep |-> 0, today |-> 0, before |-> {}]

SweepAtRest ==
    /\ data_dir = {}
    /\ sweep = NoSweep

FilesAtRest ==
    /\ today = 1
    /\ files = [k \in Keys |-> [d \in Dates |-> NoFile]]
    /\ calls = [t \in Threads |-> IdleCall]
    /\ reqs = [r \in Reqs |-> IdleReq]
    /\ provLog = [k \in Keys |-> 0]
    /\ okLog = [k \in Keys |-> FALSE]
    /\ afterOk = [k \in Keys |-> FALSE]

\* ---- SpecHealth: health requests handled one at a time -------------------
InitHealth ==
    /\ today = 1
    /\ files \in [Keys -> [Dates -> InitFiles]]
    /\ \A k \in Keys, d \in Dates : d > 1 => files[k][d] = NoFile
    /\ calls = [t \in Threads |-> IdleCall]
    /\ reqs = [r \in Reqs |-> IdleReq]
    /\ provLog = [k \in Keys |-> 0]
    /\ okLog = [k \in Keys |-> FALSE]
    /\ afterOk = [k \in Keys |-> FALSE]
    /\ ApiAtRest
    /\ RiskAtRest
    /\ EmaAtRest
    /\ SweepAtRest

SeqReqs == {"r1"}
SeqThreads == SeqReqs \X Workers

NextHealth ==
    \/ \E r \in SeqReqs, S \in SUBSET Keys : ReqStart(r, S)
    \/ \E r \in SeqReqs, s \in Keys : WorkerBegin(r, s)
    \/ \E r \in SeqReqs : PrewarmJoin(r)
    \/ \E r \in SeqReqs : LoopCall(r)
    \/ \E r \in SeqReqs : LoopReturn(r)
    \/ \E r \in SeqReqs : Respond(r)
    \/ \E r \in SeqReqs : ReqEnd(r)
    \/ \E t \in SeqThreads : FetchStep(t)
    \/ AdvanceDay

SpecHealth == InitHealth /\ [][NextHealth]_vars

\* ---- SpecConc: two health requests handled at the same time, on one date,
\* for the same symbol (Flask serves each request in a thread of its own)
ConcKeys == {"A"}
ConcInitFiles == {NoFile, Partial, JsonFile(TRUE, MinRows - 1), JsonFile(TRUE, MinRows)}

InitConc ==
    /\ today = 1
    /\ files \in [Keys -> [Dates -> ConcInitFiles]]
    /\ \A k \in Keys, d \in Dates :
          (d > 1 \/ k \notin ConcKeys) => files[k][d] = NoFile
    /\ calls = [t \in Threads |-> IdleCall]
    /\ reqs = [r \in Reqs |-> IdleReq]
    /\ provLog = [k \in Keys |-> 0]
    /\ okLog = [k \in Keys |-> FALSE]
    /\ afterOk = [k \in Keys |-> FALSE]
    /\ ApiAtRest
    /\ RiskAtRest
    /\ EmaAtRest
    /\ SweepAtRest

NextConc ==
    \/ \E r \in Reqs, S \in SUBSET ConcKeys : ReqStart(r, S)
    \/ \E r \in Reqs, s \in Keys : WorkerBegin(r, s)
    \/ \E r \in Reqs : PrewarmJoin(r)
    \/ \E r \in Reqs : LoopCall(r)
    \/ \E r \in Reqs : LoopReturn(r)
    \/ \E r \in Reqs : Respond(r)
    \/ \E r \in Reqs : ReqEnd(r)
    \/ \E t \in Threads : FetchStep(t)

SpecConc == InitConc /\ [][NextConc]_vars

(***************************************************************************)
(*                  CLAIMS ABOUT THE DAILY FILE CACHE                      *)
(***************************************************************************)

\* a cache file that is there and is not a valid series: not parseable,
\* empty, without the Close field, or with fewer than 50 rows
InvalidFile(c) ==
    c.exists /\ (~c.loads \/ c.rows = 0 \/ ~c.close \/ c.rows < 50)

\* a frame that is non-empty, has a Close column and at least 50 rows
GoodFrame(d) == ~d.raises /\ d.rows # 0 /\ d.close /\ d.rows >= 50

\* C1 as stated: for calls with the same cache key on the same calendar date
\* the provider is called at most once in total.
C1_AtMostOneFetchPerDay == \A k \in Keys : provLog[k] <= 1

\* C1 as amended: once a provider fetch for a key has succeeded and written
\* today's cache file, no later call for that key on that date calls the
\* provider again (a failed fetch writes no file and is repeated).
C1_NoFetchAfterSuccess == \A k \in Keys : ~afterOk[k]

\* C1 witness: after a successful fetch wrote today's file, a later call for
\* the key has returned the series from the file without a provider call.
C1_Witness ==
    \E t \in Threads :
        /\ calls[t].pc = "done"
        /\ okLog[calls[t].key]
        /\ calls[t].prov = 0
        /\ calls[t].ret.kind = "series"
        /\ calls[t].ret.from = "cache"

\* C2: a call that finds an invalid cache file for today deletes it, makes
\* exactly one provider fetch, and returns either Absent or the series the
\* provider gave, never the content of the file.
C2_InvalidCacheRefetched ==
    \A t \in Threads :
        (calls[t].pc = "done" /\ InvalidFile(calls[t].pre)) =>
            /\ calls[t].unlinked
            /\ calls[t].prov = 1
            /\ calls[t].ret.kind \in {"none", "series"}
            /\ calls[t].ret.kind = "series" => calls[t].ret.from = "provider"
            /\ ~InvalidFile(CacheFile(t))

\* C2 witness: a call that found a file with too few rows has returned.
C2_Witness ==
    \E t \in Threads :
        /\ calls[t].pc = "done"
        /\ calls[t].pre = JsonFile(TRUE, MinRows - 1)
        /\ calls[t].unlinked
        /\ calls[t].ret.kind = "series"

\* C6: a health request in which provider fetches fail still answers: it
\* ends without the error payload, with an entry for every symbol whose
\* series was obtained (from today's file, or from the provider in the last
\* fetch made for it) and none for a symbol whose last fetch failed,
\* whatever happened to the other symbols.
C6_PartialFailure ==
    \A r \in Reqs :
        reqs[r].pc = "done" =>
            /\ reqs[r].status = "ok"
            /\ \A s \in reqs[r].syms :
                  s \in reqs[r].resp <=> reqs[r].lastOut[s] \in {"none", "ok"}
            /\ reqs[r].resp \subseteq reqs[r].syms

\* C6 witness: a request has ended in which the provider raised for one
\* symbol and answered for another.
C6_Witness ==
    \E r \in Reqs :
        /\ reqs[r].pc = "done"
        /\ \E a, b \in reqs[r].syms :
              /\ reqs[r].lastOut[a] = "raised"
              /\ a \notin reqs[r].resp
              /\ reqs[r].lastOut[b] = "ok"
              /\ b \in reqs[r].resp

\* C7 as stated: within one request (handled within one calendar day) the
\* provider is called at most once per symbol.
C7_OneProviderCallPerSymbol ==
    \A r \in Reqs :
        reqs[r].day = today => \A s \in Keys : reqs[r].prov[s] <= 1

\* C8: only a frame that is non-empty, has Close and at least 50 rows is
\* written to a cache file; a fetch of any other frame returns Absent and
\* leaves no file; every series returned has Close and at least 50 rows.
C8_OnlyValidSeries ==
    \A t \in Threads :
        /\ calls[t].wrote => GoodFrame(calls[t].data)
        /\ (calls[t].pc = "done" /\ calls[t].prov = 1
                /\ ~GoodFrame(calls[t].data)) =>
              /\ calls[t].ret.kind = "none"
              /\ ~calls[t].wrote
              /\ ~CacheFile(t).exists
        /\ (calls[t].pc = "done" /\ calls[t].ret.kind = "series") =>
              calls[t].ret.close /\ calls[t].ret.rows >= 50
        /\ (calls[t].pc = "done" /\ calls[t].wrote) =>
              /\ CacheFile(t).loads
              /\ CacheFile(t).close
              /\ CacheFile(t).rows >= 50

\* C8 witness: a call has fetched a year of bars, written the file and
\* returned the series, and another has returned Absent for a short frame.
C8_Witness ==
    /\ \E t \in Threads :
          /\ calls[t].pc = "done"
          /\ calls[t].wrote
          /\ calls[t].ret = RetSeries(TRUE, MinRows, "provider")
    /\ \E t \in Threads :
          /\ calls[t].pc = "done"
          /\ calls[t].data = Frame(TRUE, MinRows - 1)
          /\ calls[t].ret.kind = "none"

\* C19: the file cache expires by calendar day.  A call reads and writes
\* only the file of the date it is made on; on a later date no file of that
\* date exists before a fetch of that date, so the first call for a key sees
\* no file and, like every call that sees none, makes a provider fetch,
\* whatever files of earlier dates exist; and no step deletes or changes a
\* file of an earlier date.
C19_DailyExpiry ==
    /\ [](/\ \A t \in Threads :
                calls[t].pc # "idle" => calls[t].date = today
          /\ \A k \in Keys :
                (today > 1 /\ provLog[k] = 0) => ~File(k, today).exists
          /\ \A t \in Threads :
                (calls[t].pc = "done" /\ ~calls[t].pre.exists) =>
                    calls[t].prov = 1
          /\ \A t \in Threads :
                (calls[t].pc = "done" /\ calls[t].ret.from = "cache") =>
                    /\ calls[t].pre.exists
                    /\ today > 1 => okLog[calls[t].key])
    /\ [][\A k \in Keys : \A d \in Dates :
              d < today => files'[k][d] = files[k][d]]_vars

\* C19 witness: on the second date a call for a key has made a provider
\* fetch and written that date's file while the valid file of the first
\* date is still there.
C19_Witness ==
    /\ today = 2
    /\ \E t \in Threads :
          /\ calls[t].pc = "done"
          /\ calls[t].date = 2
          /\ calls[t].prov = 1
          /\ calls[t].wrote
          /\ File(calls[t].key, 1) = JsonFile(TRUE, MinRows)
          /\ File(calls[t].key, 2) = JsonFile(TRUE, MinRows)

\* C18 as stated: no two running fetch tasks have the same cache file open
\* for writing, for the pre-warm workers of one request and of several
\* requests handled at the same time.
C18_DistinctWriters ==
    \A t, u \in Threads :
        (t # u /\ calls[t].pc = "dump" /\ calls[u].pc = "dump") =>
            <<calls[t].key, calls[t].date>> # <<calls[u].key, calls[u].date>>

\* today's file of call t is a valid series
ValidToday(t) == CacheFile(t).exists /\ CacheFile(t).loads
                    /\ CacheValid(CacheFile(t))

\* C20 as stated: no caller deletes a cache file while another call is
\* writing it, and once a fetch has finished writing today's file of a key
\* the file exists and is valid (or is being written again by a duplicate
\* fetch), under every interleaving of calls for the key.
C20_NoLostCacheEntry ==
    \A t \in Threads :
        /\ calls[t].pc = "dump" => calls[t].linked
        /\ (calls[t].pc = "done" /\ calls[t].wrote) =>
              \/ ValidToday(t)
              \/ CacheFile(t).exists /\ Writers(t) # {}

\* C21 as stated: _fetch_with_cache never raises: under every interleaving
\* of calls on the same key, also when two calls find the same corrupt cache
\* file and both try to delete it, every call returns a series or Absent,
\* and no health request ends in the error payload because of it.
C21_FetchNeverRaises ==
    /\ \A t \in Threads :
          calls[t].pc = "done" => calls[t].ret.kind \in {"series", "none"}
    /\ \A r \in Reqs : reqs[r].status # "error"

(***************************************************************************)
(*              THE BROKERAGE SESSION AND THE API CACHE                    *)
(***************************************************************************)

\* Bounds of the session model.
MaxTime   == 90      \* the clock runs from 0 to MaxTime seconds
MaxLogins == 3       \* login attempts in one behaviour

\* time.time() - _gtt_cache['fetched_at'] < 60
TTL == 60

\* the seconds that pass between two requests
Ticks == {TTL \div 2 - 1, TTL \div 2}

\* kite.get_gtts() / kite.holdings() through handle h: a missing handle
\* (None) and a handle without access token raise; so may the network
BrokerAnswers(h, ok) == h.some /\ h.authed /\ ok

\* if kite is None or access_token is None:           (lines 244, 288, ...)
NeedLogin(k, tok) == ~k.some \/ ~tok.some

\* initialize_kite_session(): a new handle is assigned first (line 168); the
\* token is assigned and given to the handle only when the login completes
\* (lines 220-222); any failure returns False (lines 228-230)
InitSession(tok, n, ok) ==
    [kite   |-> [some |-> TRUE, sess |-> n + 1, authed |-> ok],
     token  |-> IF ok THEN [some |-> TRUE, sess |-> n + 1] ELSE tok,
     logins |-> n + 1,
     login  |-> IF ok THEN "ok" ELSE "failed"]

\* the session check that opens every session-requiring handler
Session(ok) ==
    IF NeedLogin(kite, access_token)
    THEN InitSession(access_token, logins, ok)
    ELSE [kite |-> kite, token |-> access_token, logins |-> logins,
          login |-> "none"]

\* mutant of GttFresh: the cached value still served at an age of 60 seconds
GttFreshInclusive(cache, t) == cache.data.some /\ t - cache.fetched_at <= TTL

\* _gtt_cache['data'] is not None and time.time() - fetched_at < 60 (line 86)
GttFresh(cache, t) == cache.data.some /\ t - cache.fetched_at < TTL

\* mutant of GetCachedGtts: a call that raises stamps the cache with the time
\* of the attempt
GetCachedGttsStamped(h, cache, t, ok) ==
    IF GttFresh(cache, t)
    THEN [cache |-> cache, ret |-> cache.data, called |-> FALSE,
          raised |-> FALSE]
    ELSE IF BrokerAnswers(h, ok)
    THEN LET d == [some |-> TRUE, sess |-> h.sess, asof |-> t]
         IN  [cache |-> [data |-> d, fetched_at |-> t], ret |-> d,
              called |-> TRUE, raised |-> FALSE]
    ELSE [cache |-> [data |-> cache.data, fetched_at |-> t], ret |-> NoData,
          called |-> TRUE, raised |-> TRUE]

\* get_cached_gtts() called at time t through handle h; the brokerage call,
\* if made, answers or raises                              (lines 83-90)
GetCachedGtts(h, cache, t, ok) ==
    IF GttFresh(cache, t)
    THEN [cache |-> cache, ret |-> cache.data, called |-> FALSE,
          raised |-> FALSE]
    ELSE IF BrokerAnswers(h, ok)
    THEN LET d == [some |-> TRUE, sess |-> h.sess, asof |-> t]
         IN  [cache |-> [data |-> d, fetched_at |-> t], ret |-> d,
              called |-> TRUE, raised |-> FALSE]
    ELSE [cache |-> cache, ret |-> NoData, called |-> TRUE, raised |-> TRUE]

\* mutant of HoldingsCalled: holdings served from a 60-second cache
HoldingsCached(t, last) == last < 0 \/ t - last >= TTL

\* holdings = kite.holdings(): every holdings read calls the brokerage
\* (lines 296, 366)
HoldingsCalled(t, last) == TRUE

\* mutant of Proceeds: the handler goes on after a failed login
ProceedsAlways(login) == TRUE

\* if not initialize_kite_session(): return jsonify({'error': ..., ...}), 500
\* (lines 245-249, 289-293, 358-362, 492-496)
Proceeds(login) == login # "failed"

\* A session-requiring handler: the session check, then the reads of GTT
\* orders and of holdings it makes; every exception ends in the handler's
\* except clause, which returns the error payload.
\* ok, gOk, hOk: whether the login, get_gtts and holdings would succeed.
Handler(op, readsGtt, readsHold, ok, gOk, hOk) ==
        LET s == Session(ok)
            g == IF readsGtt /\ Proceeds(s.login)
                 THEN GetCachedGtts(s.kite, gtt_cache, now, gOk)
                 ELSE [cache |-> gtt_cache, ret |-> NoData, called |-> FALSE,
                       raised |-> FALSE]
            hCalled == readsHold /\ Proceeds(s.login)
                          /\ HoldingsCalled(now, holdAt)
            hRaised == hCalled /\ ~BrokerAnswers(s.kite, hOk)
        IN  /\ s.logins <= MaxLogins
            /\ kite' = s.kite
            /\ access_token' = s.token
            /\ logins' = s.logins
            /\ gtt_cache' = g.cache
            /\ holdAt' = IF hCalled THEN now ELSE holdAt
            /\ gttFailed' = IF g.called THEN g.raised ELSE gttFailed
            /\ ev' = [op |-> op, login |-> s.login,
                      gttRead |-> readsGtt /\ Proceeds(s.login),
                      gttCalled |-> g.called,
                      gttRaised |-> g.raised, prevFail |-> gttFailed,
                      holdRead |-> readsHold /\ Proceeds(s.login),
                      holdCalled |-> hCalled,
                      via |-> IF g.called \/ hCalled THEN s.kite.sess ELSE 0,
                      pre |-> gtt_cache, ret |-> g.ret, prevHold |-> holdAt,
                      status |-> IF ~Proceeds(s.login) \/ g.raised \/ hRaised
                                 THEN "error" ELSE "ok",
                      needLogin |-> NeedLogin(kite, access_token),
                      attempts |-> s.logins - logins,
                      payload |-> IF ~Proceeds(s.login) THEN "login_failed"
                                  ELSE IF g.raised \/ hRaised THEN "exception"
                                  ELSE "data"]
            /\ UNCHANGED <<now, hand, fileVars, riskVars, emaVars, sweepVars>>

\* @app.route('/api/gtt_orders')                          (lines 237-279)
get_gtt_orders ==
    \E ok, gOk \in BOOLEAN : Handler("gtt_orders", TRUE, FALSE, ok, gOk, TRUE)

\* @app.route('/api/holdings')                            (lines 281-348)
get_holdings ==
    \E ok, hOk \in BOOLEAN : Handler("holdings", FALSE, TRUE, ok, TRUE, hOk)

\* @app.route('/api/risk_analytics'): both reads run in a pool of two
\* workers and both are waited for                        (lines 350-369)
get_risk_analytics ==
    \E ok, gOk, hOk \in BOOLEAN :
        Handler("risk_analytics", TRUE, TRUE, ok, gOk, hOk)

\* @app.route('/api/technical_health'), up to the list of symbols
\* (lines 484-510)
get_technical_health ==
    \E ok, gOk \in BOOLEAN :
        Handler("technical_health", TRUE, FALSE, ok, gOk, TRUE)

\* @app.route('/api/refresh_session')                     (lines 709-720)
refresh_session ==
    \E ok \in BOOLEAN :
        LET s == InitSession(NoToken, logins, ok)
        IN  /\ s.logins <= MaxLogins
            /\ kite' = s.kite
            /\ access_token' = s.token
            /\ logins' = s.logins
            /\ ev' = [NoEvent EXCEPT !.op = "refresh_session",
                         !.login = s.login, !.pre = gtt_cache,
                         !.prevHold = holdAt,
                         !.status = IF ok THEN "ok" ELSE "error",
                         !.attempts = 1,
                         !.payload = IF ok THEN "data" ELSE "login_failed"]
            /\ UNCHANGED <<gtt_cache, now, holdAt, gttFailed, hand>>
            /\ UNCHANGED <<fileVars, riskVars, emaVars, sweepVars>>

\* time passes between two requests
Tick ==
    \E d \in Ticks :
        /\ now + d <= MaxTime
        /\ now' = now + d
        /\ ev' = NoEvent
        /\ UNCHANGED <<kite, access_token, gtt_cache, logins, holdAt,
                       gttFailed, hand>>
        /\ UNCHANGED <<fileVars, riskVars, emaVars, sweepVars>>

InitApi ==
    ApiAtRest /\ FilesAtRest /\ RiskAtRest /\ EmaAtRest /\ SweepAtRest

NextApi ==
    \/ get_gtt_orders
    \/ get_holdings
    \/ get_risk_analytics
    \/ get_technical_health
    \/ refresh_session
    \/ Tick

SpecApi == InitApi /\ [][NextApi]_vars

(***************************************************************************)
(*          THE SESSION WITH REQUESTS HANDLED AT THE SAME TIME             *)
(* app.run() serves each request in a thread of its own.  kite and         *)
(* access_token are module globals that every handler reads again at each  *)
(* use, so a handler is a sequence of steps between which the other        *)
(* thread may run.  The clock stands still.                                *)
(***************************************************************************)

\* gtt_orders = get_cached_gtts()                  (lines 252, 367, 499)
ReadsGtt(op) == op \in {"gtt_orders", "risk_analytics", "technical_health"}

\* holdings = kite.holdings()                      (lines 296, 366)
ReadsHold(op) == op \in {"holdings", "risk_analytics"}

\* what the global kite is when a brokerage method is called on it
HandleState(h) ==
    IF ~h.some THEN "none" ELSE IF ~h.authed THEN "unauthed" ELSE "session"

\* the first brokerage read of a handler that has its session
FirstRead(op) == IF ReadsHold(op) THEN "holdings" ELSE "gtts"

\* a request for one of the session routes arrives at a server thread
HandlerStart(t) ==
    \E op \in {"gtt_orders", "holdings", "risk_analytics",
               "technical_health", "refresh_session"} :
        /\ hand[t].pc = "idle"
        /\ hand' = [hand EXCEPT ![t] =
                       [IdleHandler EXCEPT !.op = op,
                           !.pc = IF op = "refresh_session" THEN "clear"
                                  ELSE "check"]]
        /\ UNCHANGED <<kite, access_token, gtt_cache, now, logins, ev,
                       holdAt, gttFailed>>
        /\ UNCHANGED <<fileVars, riskVars, emaVars, sweepVars>>

\* if kite is None or access_token is None:     (lines 244, 288, 357, 491)
SessionCheck(t) ==
    /\ hand[t].pc = "check"
    /\ hand' = [hand EXCEPT ![t].pc =
                   IF NeedLogin(kite, access_token) THEN "assign"
                   ELSE FirstRead(hand[t].op)]
    /\ UNCHANGED <<kite, access_token, gtt_cache, now, logins, ev,
                   holdAt, gttFailed>>
    /\ UNCHANGED <<fileVars, riskVars, emaVars, sweepVars>>

\* refresh_session: kite = None; access_token = None      (lines 714-715)
RefreshClear(t) ==
    /\ hand[t].pc = "clear"
    /\ kite' = NoHandle
    /\ access_token' = NoToken
    /\ hand' = [hand EXCEPT ![t].pc = "assign"]
    /\ UNCHANGED <<gtt_cache, now, logins, ev, holdAt, gttFailed>>
    /\ UNCHANGED <<fileVars, riskVars, emaVars, sweepVars>>

\* initialize_kite_session: kite = KiteConnect(api_key=api_key): the new
\* handle is in the global before the login has started     (line 168)
LoginAssign(t) ==
    /\ hand[t].pc = "assign"
    /\ logins < MaxLogins
    /\ kite' = [some |-> TRUE, sess |-> logins + 1, authed |-> FALSE]
    /\ logins' = logins + 1
    /\ hand' = [hand EXCEPT ![t].pc = "login"]
    /\ UNCHANGED <<access_token, gtt_cache, now, ev, holdAt, gttFailed>>
    /\ UNCHANGED <<fileVars, riskVars, emaVars, sweepVars>>

\* initialize_kite_session, the browser login and its end: generate_session
\* and set_access_token are called on the global kite as it is then, and
\* the token is stored (lines 220-222); any exception, the one of a None
\* handle included, returns False (lines 228-230).  A handler goes on to
\* its reads after True and returns the failure payload after False;
\* refresh_session answers either way.
LoginEnd(t) ==
    \E ok \in BOOLEAN :
        /\ hand[t].pc = "login"
        /\ IF ok /\ kite.some
           THEN /\ kite' = [kite EXCEPT !.authed = TRUE]
                /\ access_token' = [some |-> TRUE, sess |-> kite.sess]
                /\ hand' = [hand EXCEPT ![t] =
                               IF hand[t].op = "refresh_session"
                               THEN [@ EXCEPT !.pc = "done", !.status = "ok"]
                               ELSE [@ EXCEPT !.pc = FirstRead(hand[t].op)]]
           ELSE /\ UNCHANGED <<kite, access_token>>
                /\ hand' = [hand EXCEPT ![t] =
                               [@ EXCEPT !.pc = "done", !.status = "error"]]
        /\ UNCHANGED <<gtt_cache, now, logins, ev, holdAt, gttFailed>>
        /\ UNCHANGED <<fileVars, riskVars, emaVars, sweepVars>>

\* kite.holdings() on the global kite as it is at the call (lines 296, 366);
\* in risk_analytics get_cached_gtts runs whether or not it raises
\* (lines 365-369)
CallHoldings(t) ==
    \E hOk \in BOOLEAN :
        /\ hand[t].pc = "holdings"
        /\ HoldingsCalled(now, holdAt)
        /\ holdAt' = now
        /\ hand' = [hand EXCEPT ![t] =
                       [@ EXCEPT !.hold = HandleState(kite),
                           !.status = IF BrokerAnswers(kite, hOk)
                                      THEN "ok" ELSE "error",
                           !.pc = IF ReadsGtt(hand[t].op) THEN "gtts"
                                  ELSE "done"]]
        /\ UNCHANGED <<kite, access_token, gtt_cache, now, logins, ev,
                       gttFailed>>
        /\ UNCHANGED <<fileVars, riskVars, emaVars, sweepVars>>

\* get_cached_gtts(): kite.get_gtts() on the global kite as it is at the
\* call                                                      (lines 83-90)
CallCachedGtts(t) ==
    \E gOk \in BOOLEAN :
        LET g == GetCachedGtts(kite, gtt_cache, now, gOk)
        IN  /\ hand[t].pc = "gtts"
            /\ gtt_cache' = g.cache
            /\ gttFailed' = IF g.called THEN g.raised ELSE gttFailed
            /\ hand' = [hand EXCEPT ![t] =
                           [@ EXCEPT !.gtts = IF g.called
                                              THEN HandleState(kite)
                                              ELSE "cache",
                               !.status = IF g.raised \/ @ = "error"
                                          THEN "error" ELSE "ok",
                               !.pc = "done"]]
            /\ UNCHANGED <<kite, access_token, now, logins, ev, holdAt>>
            /\ UNCHANGED <<fileVars, riskVars, emaVars, sweepVars>>

\* the response is sent and the thread is free again
HandlerEnd(t) ==
    /\ hand[t].pc = "done"
    /\ hand' = [hand EXCEPT ![t] = IdleHandler]
    /\ UNCHANGED <<kite, access_token, gtt_cache, now, logins, ev,
                   holdAt, gttFailed>>
    /\ UNCHANGED <<fileVars, riskVars, emaVars, sweepVars>>

NextSess ==
    \/ \E t \in SessThreads : HandlerStart(t)
    \/ \E t \in SessThreads : SessionCheck(t)
    \/ \E t \in SessThreads : RefreshClear(t)
    \/ \E t \in SessThreads : LoginAssign(t)
    \/ \E t \in SessThreads : LoginEnd(t)
    \/ \E t \in SessThreads : CallHoldings(t)
    \/ \E t \in SessThreads : CallCachedGtts(t)
    \/ \E t \in SessThreads : HandlerEnd(t)

SpecSess == InitApi /\ [][NextSess]_vars

(***************************************************************************)
(*          CLAIMS ABOUT THE BROKERAGE SESSION AND THE API CACHE           *)
(***************************************************************************)

\* C3: get_cached_gtts calls the brokerage exactly when nothing is cached or
\* the cached value is 60 seconds old or older; otherwise it returns the
\* cached value and leaves the cache alone; a call that goes through and is
\* answered stores the new value with the current time.
C3_GttCacheTtl ==
    ev.gttRead =>
        /\ ev.gttCalled <=>
              (~ev.pre.data.some \/ now - ev.pre.fetched_at >= 60)
        /\ ~ev.gttCalled => (ev.ret = ev.pre.data /\ gtt_cache = ev.pre)
        /\ (ev.gttCalled /\ ev.ret.some) =>
              /\ ev.ret.asof = now
              /\ gtt_cache = [data |-> ev.ret, fetched_at |-> now]

\* C3 witness: a value cached 60 seconds ago has just been replaced by a
\* call to the brokerage.
C3_Witness ==
    /\ ev.gttRead
    /\ ev.pre.data.some
    /\ now - ev.pre.fetched_at = 60
    /\ ev.gttCalled
    /\ gtt_cache.fetched_at = now

C5_RefreshClearsCache ==
    (ev.gttRead /\ ev.login = "none" /\ ev.ret.some) =>
        ev.ret.sess = kite.sess

\* the handlers that need a session
SessionHandlers ==
    {"gtt_orders", "holdings", "risk_analytics", "technical_health"}

\* C17: when no session is in place and the login fails, a session-requiring
\* handler makes exactly one login attempt, calls the brokerage neither for
\* GTT orders nor for holdings, leaves the GTT cache alone and returns the
\* failure payload (error message and empty-collection default); a handler
\* that finds a session in place makes no login attempt.
C17_LoginFailurePayload ==
    ev.op \in SessionHandlers =>
        /\ ev.attempts = (IF ev.needLogin THEN 1 ELSE 0)
        /\ (ev.needLogin /\ ev.login = "failed") =>
              /\ ~ev.gttCalled
              /\ ~ev.holdCalled
              /\ ev.status = "error"
              /\ ev.payload = "login_failed"
              /\ gtt_cache = ev.pre
              /\ holdAt = ev.prevHold
              /\ ~access_token.some

\* C17 witness: risk_analytics, which reads both holdings and GTT orders,
\* has answered a failed login with the failure payload, and it was not the
\* first failed login.
C17_Witness ==
    /\ ev.op = "risk_analytics"
    /\ ev.needLogin
    /\ ev.login = "failed"
    /\ ev.payload = "login_failed"
    /\ logins >= 2

\* C23: when the brokerage get_gtts call raises inside get_cached_gtts, the
\* cached value and its fetch timestamp are as they were before the call
\* and the handler returns the failure payload; and after such a failure a
\* read that finds the kept value 60 seconds old or older calls the
\* brokerage again and does not serve the kept value.
C23_GttFailureKeepsCache ==
    /\ ev.gttRaised =>
          /\ ev.gttCalled
          /\ gtt_cache = ev.pre
          /\ ev.status = "error"
          /\ ev.payload = "exception"
          /\ ~ev.ret.some
    /\ (ev.gttRead /\ ev.prevFail /\ now - ev.pre.fetched_at >= 60) =>
          /\ ev.gttCalled
          /\ ev.ret.some => (ev.ret.asof = now /\ ev.ret # ev.pre.data)

\* C23 witness: a get_gtts call has raised while a value was cached, the
\* value was kept, and the next read, 60 seconds or more after the value
\* was fetched, has fetched a new value from the brokerage.
C23_Witness ==
    /\ ev.gttRead
    /\ ev.prevFail
    /\ ev.pre.data.some
    /\ now - ev.pre.fetched_at >= 60
    /\ ev.gttCalled
    /\ ev.ret.some
    /\ ev.ret.asof = now
    /\ gtt_cache.fetched_at = now

\* C24 as stated: a brokerage call (kite.holdings or kite.get_gtts) is made
\* only through the handle of a completed login: under every interleaving
\* of handlers with refresh_session and with failed logins, no handler
\* calls the brokerage through a missing handle (None) or through a handle
\* whose login has not completed.
C24_CallsOnlyThroughSession ==
    \A t \in SessThreads :
        /\ hand[t].hold \in {"-", "session"}
        /\ hand[t].gtts \in {"-", "cache", "session"}

(***************************************************************************)
(*                  HOLDINGS AND THE RISK JOIN                             *)
(* Prices and amounts are in hundredths of a rupee, percentages and        *)
(* ratios in hundredths: round(x, 2) of the code is the identity on the    *)
(* former and a rounding of an exact quotient on the latter.  Floating     *)
(* point error is not modelled.                                            *)
(***************************************************************************)

\* Bounds of the inputs.
MaxHoldings == 2     \* length of the list kite.holdings() returns
MaxOrders   == 2     \* length of the list kite.get_gtts() returns

Symbols == {"X", "Y"}

\* h.get('mtf'): absent, a dict without 'quantity', a dict with it
NoMtf      == [isDict |-> FALSE, hasQty |-> FALSE, quantity |-> 0, value |-> 0]
MtfBare    == [isDict |-> TRUE,  hasQty |-> FALSE, quantity |-> 0, value |-> 0]
MtfOf(q, v) == [isDict |-> TRUE, hasQty |-> TRUE,  quantity |-> q, value |-> v]

RawHolding(s, q, t1, m, avg, last, pnl) ==
    [tradingsymbol |-> s, quantity |-> q, t1_quantity |-> t1, mtf |-> m,
     average_price |-> avg, last_price |-> last, pnl |-> pnl]

\* the holdings a brokerage answer is made of
HoldingChoices ==
    {RawHolding("X", 10, 0, NoMtf, 10000, 12000, 20000),
     RawHolding("X", 0, 0, NoMtf, 10000, 12000, 0),
     RawHolding("X", 0, 0, MtfBare, 10000, 12000, 0),
     RawHolding("X", 0, 0, MtfOf(0, 0), 10000, 12000, 0),
     RawHolding("X", 0, 5, NoMtf, 10000, 12000, 10000),
     RawHolding("Y", 0, 0, MtfOf(3, 900), 300, 200, -300),
     RawHolding("Y", 2, 1, MtfOf(3, 900), 300, 200, -600),
     RawHolding("Y", 0, 0, NoMtf, 300, 200, 0),
     RawHolding("Y", 4, 0, NoMtf, 0, 0, 0)}

RawOrder(st, s, tv) == [status |-> st, tradingsymbol |-> s, trigger_values |-> tv]

\* the GTT orders a brokerage answer is made of
OrderChoices ==
    {RawOrder("active", "X", <<9000, 15000>>),
     RawOrder("active", "X", <<10000>>),
     RawOrder("active", "Y", <<200, 400>>),
     RawOrder("triggered", "Y", <<100, 500>>)}

RECURSIVE SeqsUpTo(_, _)
SeqsUpTo(S, n) ==
    IF n = 0 THEN {<<>>}
    ELSE LET shorter == SeqsUpTo(S, n - 1)
         IN  shorter \cup {Append(q, x) : q \in shorter, x \in S}

\* round(n / d, 2) for an exact quotient n / d given in hundredths: the
\* nearest integer to n / d, ties to the even one (Python 3's round)
RoundDiv(n, d) ==
    LET nn == IF d < 0 THEN -n ELSE n
        dd == IF d < 0 THEN -d ELSE d
        q  == nn \div dd
        r  == nn % dd
    IN  IF 2 * r < dd THEN q
        ELSE IF 2 * r > dd THEN q + 1
        ELSE IF q % 2 = 0 THEN q ELSE q + 1

\* regular_qty = h['quantity'] + h['t1_quantity']       (lines 302, 374)
RegularQty(h) == h.quantity + h.t1_quantity

\* mtf_qty = h['mtf'].get('quantity', 0) if isinstance(h.get('mtf'), dict)
\* else 0                                               (lines 303-307)
MtfQty(h) == IF h.mtf.isDict
             THEN (IF h.mtf.hasQty THEN h.mtf.quantity ELSE 0)
             ELSE 0

\* mtf_investment = h['mtf'].get('value', 0)            (lines 314-317)
MtfValue(h) == IF h.mtf.isDict THEN h.mtf.value ELSE 0

\* total_qty = regular_qty + mtf_qty                    (lines 309, 378)
TotalQty(h) == RegularQty(h) + MtfQty(h)

\* mutants of the three zero-quantity filters: a flat holding let through
KeepAny(total_qty) == total_qty >= 0

\* if total_qty != 0:                    (get_holdings, line 311)
KeepHolding(total_qty) == total_qty # 0

\* if total_qty != 0:                    (get_risk_analytics, line 380)
KeepInJoin(total_qty) == total_qty # 0

\* if total_qty != 0:                    (process_holdings, kite_utils line 23)
KeepInTable(total_qty) == total_qty # 0

\* formatted_holding                                    (lines 312-337)
FormattedHolding(h) ==
    LET total_investment == RegularQty(h) * h.average_price + MtfValue(h)
    IN  [symbol |-> h.tradingsymbol,
         regular_qty |-> RegularQty(h),
         mtf_qty |-> MtfQty(h),
         total_qty |-> TotalQty(h),
         avg_price |-> h.average_price,
         last_price |-> h.last_price,
         investment |-> total_investment,
         pnl |-> h.pnl,
         pnl_percent |-> IF total_investment > 0
                         THEN RoundDiv(h.pnl * 10000, total_investment)
                         ELSE 0]

\* for h in holdings: ... formatted_holdings.append(...)  (lines 299-338)
RECURSIVE FormattedHoldings(_)
FormattedHoldings(hs) ==
    IF hs = <<>> THEN <<>>
    ELSE (IF KeepHolding(TotalQty(Head(hs)))
          THEN <<FormattedHolding(Head(hs))>> ELSE <<>>)
         \o FormattedHoldings(Tail(hs))

\* a row of process_holdings: prices rounded to one decimal, the investment
\* to a whole rupee                                (kite_utils lines 24-43)
TableRow(h) ==
    LET total_investment == RegularQty(h) * h.average_price + MtfValue(h)
    IN  [symbol |-> h.tradingsymbol,
         regular_qty |-> RegularQty(h),
         mtf_qty |-> MtfQty(h),
         total_qty |-> TotalQty(h),
         avg_price |-> RoundDiv(h.average_price, 10) * 10,
         last_price |-> RoundDiv(h.last_price, 10) * 10,
         investment |-> RoundDiv(total_investment, 100) * 100,
         pnl |-> RoundDiv(h.pnl, 100) * 100,
         pnl_percent |-> IF total_investment > 0
                         THEN RoundDiv(h.pnl * 10000, total_investment)
                         ELSE 0]

\* process_holdings(holdings)                      (kite_utils lines 15-44)
RECURSIVE process_holdings(_)
process_holdings(hs) ==
    IF hs = <<>> THEN <<>>
    ELSE (IF KeepInTable(TotalQty(Head(hs)))
          THEN <<TableRow(Head(hs))>> ELSE <<>>)
         \o process_holdings(Tail(hs))

\* a dict as the list of its items in insertion order: d[k] = v replaces the
\* value of a key already present and appends a new key at the end
DictHas(d, k) == \E i \in DOMAIN d : d[i].key = k
DictGet(d, k) == d[CHOOSE i \in DOMAIN d : d[i].key = k].val
DictPut(d, k, v) ==
    IF DictHas(d, k)
    THEN [i \in DOMAIN d |-> IF d[i].key = k THEN [key |-> k, val |-> v]
                             ELSE d[i]]
    ELSE Append(d, [key |-> k, val |-> v])

\* holdings_dict[h['tradingsymbol']] = {...}            (lines 372-390)
RECURSIVE HoldingsDict(_, _)
HoldingsDict(d, hs) ==
    IF hs = <<>> THEN d
    ELSE LET h == Head(hs)
             entry == [symbol |-> h.tradingsymbol,
                       regular_qty |-> RegularQty(h),
                       mtf_qty |-> MtfQty(h),
                       total_qty |-> TotalQty(h),
                       avg_price |-> h.average_price,
                       last_price |-> h.last_price,
                       pnl |-> h.pnl]
         IN  HoldingsDict(IF KeepInJoin(TotalQty(h))
                          THEN DictPut(d, h.tradingsymbol, entry) ELSE d,
                          Tail(hs))

\* gtt_dict[symbol] = {...} for the active orders       (lines 392-402)
RECURSIVE GttDict(_, _)
GttDict(d, os) ==
    IF os = <<>> THEN d
    ELSE LET order == Head(os)
             tv == order.trigger_values
             entry == [sl_trigger |-> tv[1],
                       tgt_trigger |-> IF Len(tv) > 1 THEN tv[2] ELSE 0]
         IN  GttDict(IF order.status = "active"
                     THEN DictPut(d, order.tradingsymbol, entry) ELSE d,
                     Tail(os))

\* mutant of CapitalRisk: the risk measured from the last price
CapitalRiskFromLast(h, g) ==
    IF h.total_qty # 0 THEN (h.last_price - g.sl_trigger) * h.total_qty ELSE 0

\* capital_risk                                         (line 425)
CapitalRisk(h, g) ==
    IF h.total_qty # 0 THEN (h.avg_price - g.sl_trigger) * h.total_qty ELSE 0

\* open_pnl_risk                                        (line 428)
OpenPnlRisk(h, g) ==
    IF h.total_qty # 0 THEN (h.last_price - g.sl_trigger) * h.total_qty ELSE 0

\* mutant of RrGuard: the ratio taken whatever the risk per share
RrGuardNone(h, g) == TRUE

\* the conditions under which the four quotients are taken (lines 421-427)
PnlGuard(investment) == investment > 0
SlGuard(h) == h.avg_price # 0
TgtGuard(h) == h.last_price # 0
RrGuard(h, g) == h.avg_price - g.sl_trigger # 0

\* n / d rounded to two decimals, taken when the guard holds; 0 otherwise.
\* Dividing by zero raises ZeroDivisionError: ZeroDiv says so, and the value
\* is then of no account.
Quotient(guard, n, d) == IF guard /\ d # 0 THEN RoundDiv(n, d) ELSE 0
ZeroDiv(guard, d) == guard /\ d = 0

\* analytics_item                                       (lines 414-446)
AnalyticsItem(symbol, h, g) ==
    LET investment == h.total_qty * h.avg_price
    IN  [symbol |-> symbol,
         raised |-> \/ ZeroDiv(PnlGuard(investment), investment)
                    \/ ZeroDiv(SlGuard(h), h.avg_price)
                    \/ ZeroDiv(TgtGuard(h), h.last_price)
                    \/ ZeroDiv(RrGuard(h, g), h.avg_price - g.sl_trigger),
         total_qty |-> h.total_qty,
         avg_price |-> h.avg_price,
         last_price |-> h.last_price,
         investment |-> investment,
         sl_trigger |-> g.sl_trigger,
         tgt_trigger |-> g.tgt_trigger,
         pnl |-> h.pnl,
         pnl_percent |-> Quotient(PnlGuard(investment),
                                  h.pnl * 10000, investment),
         sl_percent |-> Quotient(SlGuard(h),
                                 (h.avg_price - g.sl_trigger) * 10000,
                                 h.avg_price),
         tgt_percent |-> Quotient(TgtGuard(h),
                                  (g.tgt_trigger - h.last_price) * 10000,
                                  h.last_price),
         rr_ratio |-> Quotient(RrGuard(h, g),
                               (h.last_price - h.avg_price) * 100,
                               h.avg_price - g.sl_trigger),
         open_pnl_risk |-> OpenPnlRisk(h, g),
         capital_risk |-> CapitalRisk(h, g)]

\* for symbol in holdings_dict.keys(): if symbol in gtt_dict: ...
\*                                                      (lines 412-448)
RECURSIVE RiskItems(_, _)
RiskItems(hd, gd) ==
    IF hd = <<>> THEN <<>>
    ELSE (IF DictHas(gd, Head(hd).key)
          THEN <<AnalyticsItem(Head(hd).key, Head(hd).val,
                               DictGet(gd, Head(hd).key))>>
          ELSE <<>>)
         \o RiskItems(Tail(hd), gd)

\* x += ... over the items                              (lines 450-458)
RECURSIVE SumOf(_)
SumOf(xs) == IF xs = <<>> THEN 0 ELSE Head(xs) + SumOf(Tail(xs))

\* the totals accumulated in the loop and the summary   (lines 450-468)
Summary(items) ==
    [total_stocks |-> Len(items),
     total_investment |-> SumOf([i \in DOMAIN items |-> items[i].investment]),
     total_open_risk |-> SumOf([i \in DOMAIN items |-> items[i].open_pnl_risk]),
     total_capital_risk |-> SumOf([i \in DOMAIN items |-> items[i].capital_risk]),
     positive_capital_risk |->
         SumOf([i \in DOMAIN items |-> IF items[i].capital_risk > 0
                                       THEN items[i].capital_risk ELSE 0]),
     total_profit |-> SumOf([i \in DOMAIN items |-> items[i].pnl])]

(***************************************************************************)
(* The three computations applied to one answer of the brokerage.          *)
(***************************************************************************)

\* get_holdings: jsonify(formatted_holdings)            (lines 296-341)
HoldingsResponse ==
    /\ out' = [op |-> "holdings", status |-> "ok",
               rows |-> FormattedHoldings(holdings), summary |-> NoSummary]
    /\ UNCHANGED <<holdings, gtt_orders>>
    /\ UNCHANGED <<fileVars, apiVars, emaVars, sweepVars>>

\* get_risk_analytics: jsonify({'analytics': ..., 'summary': ...})
\*                                                      (lines 368-474)
RiskResponse ==
    LET items == RiskItems(HoldingsDict(<<>>, holdings),
                           GttDict(<<>>, gtt_orders))
        raised == \E i \in DOMAIN items : items[i].raised
    IN  /\ out' = IF raised       \* except Exception as e: (lines 476-482)
                  THEN [op |-> "risk", status |-> "error", rows |-> <<>>,
                        summary |-> NoSummary]
                  ELSE [op |-> "risk", status |-> "ok", rows |-> items,
                        summary |-> Summary(items)]
        /\ UNCHANGED <<holdings, gtt_orders>>
        /\ UNCHANGED <<fileVars, apiVars, emaVars, sweepVars>>

\* process_holdings(holdings)                      (kite_utils lines 15-44)
HoldingsTable ==
    /\ out' = [op |-> "table", status |-> "ok",
               rows |-> process_holdings(holdings), summary |-> NoSummary]
    /\ UNCHANGED <<holdings, gtt_orders>>
    /\ UNCHANGED <<fileVars, apiVars, emaVars, sweepVars>>

InitRisk ==
    /\ holdings \in SeqsUpTo(HoldingChoices, MaxHoldings)
    /\ gtt_orders \in SeqsUpTo(OrderChoices, MaxOrders)
    /\ out = NoOut
    /\ FilesAtRest
    /\ ApiAtRest
    /\ EmaAtRest
    /\ SweepAtRest

NextRisk == HoldingsResponse \/ RiskResponse \/ HoldingsTable

SpecRisk == InitRisk /\ [][NextRisk]_vars

(***************************************************************************)
(*              CLAIMS ABOUT HOLDINGS AND THE RISK JOIN                    *)
(***************************************************************************)

\* the total quantity of a holding as the claims state it
HeldTotal(h) ==
    h.quantity + h.t1_quantity
        + (IF h.mtf.isDict /\ h.mtf.hasQty THEN h.mtf.quantity ELSE 0)

Abs(x) == IF x < 0 THEN -x ELSE x

\* x is the quotient n / d to the nearest unit
Nearest(x, n, d) == 2 * Abs(x * d - n) <= Abs(d)

ActiveFor(s) ==
    {k \in DOMAIN gtt_orders : /\ gtt_orders[k].status = "active"
                               /\ gtt_orders[k].tradingsymbol = s}
HeldFor(s) ==
    {j \in DOMAIN holdings : /\ holdings[j].tradingsymbol = s
                             /\ HeldTotal(holdings[j]) # 0}

\* C9: a holding whose total quantity (quantity + t1_quantity + MTF quantity,
\* 0 when absent) is 0 never appears in the /api/holdings list, in the
\* risk-analytics items or in the process_holdings table: every row of an
\* output has a nonzero total quantity and is the row of a holding with that
\* nonzero total, and the list and the table have exactly one row for each
\* holding with a nonzero total.
C9_ZeroHoldingsExcluded ==
    out.op \in {"holdings", "risk", "table"} =>
        /\ \A i \in DOMAIN out.rows :
              /\ out.rows[i].total_qty # 0
              /\ \E j \in DOMAIN holdings :
                    /\ holdings[j].tradingsymbol = out.rows[i].symbol
                    /\ HeldTotal(holdings[j]) = out.rows[i].total_qty
        /\ out.op \in {"holdings", "table"} =>
              Len(out.rows) =
                  Cardinality({j \in DOMAIN holdings :
                                   HeldTotal(holdings[j]) # 0})

\* C9 witness: the risk join of an answer in which symbol X is held only
\* with total quantity 0 (its mtf a dict without quantity) and has an active
\* GTT order, while another symbol yields an item.
C9_Witness ==
    /\ out.op = "risk"
    /\ out.rows # <<>>
    /\ ActiveFor("X") # {}
    /\ HeldFor("X") = {}
    /\ \E j \in DOMAIN holdings :
          /\ holdings[j].tradingsymbol = "X"
          /\ holdings[j].mtf.isDict /\ ~holdings[j].mtf.hasQty

\* C10: every symbol with a held position and an active GTT order gets a
\* risk-analytics item, and every item is computed from a holding of its
\* symbol and an active order for it as
\*   capital_risk  = (avg_price - sl_trigger) * total_qty,
\*   open_pnl_risk = (last_price - sl_trigger) * total_qty,
\*   sl_percent    = (avg_price - sl_trigger) / avg_price * 100 and
\*   rr_ratio      = (last_price - avg_price) / (avg_price - sl_trigger),
\* the quotients to two decimals where the denominator is not zero; for
\* avg_price 100, last_price 120, total_qty 10 and sl_trigger 90 the item has
\* capital_risk 100, sl_percent 10, rr_ratio 2 and open_pnl_risk 300.
C10_RiskFormulas ==
    out.op = "risk" =>
        /\ \A s \in Symbols :
              (HeldFor(s) # {} /\ ActiveFor(s) # {}) =>
                  \E i \in DOMAIN out.rows : out.rows[i].symbol = s
        /\ \A i \in DOMAIN out.rows :
              LET it == out.rows[i]
              IN  /\ \E j \in HeldFor(it.symbol) :
                        /\ holdings[j].average_price = it.avg_price
                        /\ holdings[j].last_price = it.last_price
                        /\ HeldTotal(holdings[j]) = it.total_qty
                  /\ \E k \in ActiveFor(it.symbol) :
                        gtt_orders[k].trigger_values[1] = it.sl_trigger
                  /\ it.capital_risk =
                        (it.avg_price - it.sl_trigger) * it.total_qty
                  /\ it.open_pnl_risk =
                        (it.last_price - it.sl_trigger) * it.total_qty
                  /\ it.avg_price # 0 =>
                        Nearest(it.sl_percent,
                                (it.avg_price - it.sl_trigger) * 10000,
                                it.avg_price)
                  /\ it.avg_price # it.sl_trigger =>
                        Nearest(it.rr_ratio,
                                (it.last_price - it.avg_price) * 100,
                                it.avg_price - it.sl_trigger)
                  /\ (/\ it.avg_price = 10000 /\ it.last_price = 12000
                      /\ it.total_qty = 10 /\ it.sl_trigger = 9000) =>
                        /\ it.capital_risk = 10000
                        /\ it.sl_percent = 1000
                        /\ it.rr_ratio = 200
                        /\ it.open_pnl_risk = 30000

\* C10 witness: a risk payload with the item of the example (100, 120, 10,
\* stop 90) and an item whose stop-loss percentage does not terminate
\* (average 3.00, stop 2.00: 33.33).
C10_Witness ==
    /\ out.op = "risk"
    /\ \E i \in DOMAIN out.rows :
          /\ out.rows[i].avg_price = 10000 /\ out.rows[i].last_price = 12000
          /\ out.rows[i].total_qty = 10 /\ out.rows[i].sl_trigger = 9000
          /\ out.rows[i].capital_risk = 10000
    /\ \E i \in DOMAIN out.rows : out.rows[i].sl_percent = 3333

\* C11: the risk join never divides by zero: the request ends without the
\* error payload, every symbol with a held position and an active order has
\* its item, and in an item pnl_percent is 0 when the investment is not
\* positive, sl_percent is 0 when avg_price is 0, tgt_percent is 0 when
\* last_price is 0, and rr_ratio is 0 when avg_price equals sl_trigger.
C11_NoDivisionByZero ==
    out.op = "risk" =>
        /\ out.status = "ok"
        /\ \A s \in Symbols :
              (HeldFor(s) # {} /\ ActiveFor(s) # {}) =>
                  \E i \in DOMAIN out.rows : out.rows[i].symbol = s
        /\ \A i \in DOMAIN out.rows :
              LET it == out.rows[i]
              IN  /\ it.total_qty * it.avg_price <= 0 => it.pnl_percent = 0
                  /\ it.avg_price = 0 => it.sl_percent = 0
                  /\ it.last_price = 0 => it.tgt_percent = 0
                  /\ it.avg_price = it.sl_trigger => it.rr_ratio = 0

\* C11 witness: a risk payload with an item whose average and last price are
\* 0 and an item whose stop-loss trigger equals the average price.
C11_Witness ==
    /\ out.op = "risk"
    /\ \E i \in DOMAIN out.rows :
          /\ out.rows[i].avg_price = 0
          /\ out.rows[i].last_price = 0
          /\ out.rows[i].total_qty # 0
    /\ \E i \in DOMAIN out.rows :
          /\ out.rows[i].avg_price = out.rows[i].sl_trigger
          /\ out.rows[i].last_price # out.rows[i].avg_price

\* the trigger values of the first active order for symbol s in the list
FirstActive(s) ==
    gtt_orders[CHOOSE k \in ActiveFor(s) : \A l \in ActiveFor(s) : k <= l]
        .trigger_values

\* C12 as stated: the risk join uses only active GTT orders, a symbol gets
\* exactly one item, and the item's sl_trigger and tgt_trigger are those of
\* the first active order for the symbol in the brokerage's list.
C12_FirstActiveWins ==
    (out.op = "risk" /\ out.status = "ok") =>
        /\ \A i, j \in DOMAIN out.rows :
              out.rows[i].symbol = out.rows[j].symbol => i = j
        /\ \A i \in DOMAIN out.rows :
              LET it == out.rows[i]
                  tv == FirstActive(it.symbol)
              IN  /\ ActiveFor(it.symbol) # {}
                  /\ it.sl_trigger = tv[1]
                  /\ it.tgt_trigger = (IF Len(tv) > 1 THEN tv[2] ELSE 0)

(***************************************************************************)
(*                          EMA ANALYSIS                                   *)
(* A series is len bars of closing prices (hundredths): len - 2 bars at    *)
(* base, one at prev, the last at last.  On such a series the recurrence   *)
(* y[0] = x[0], y[t] = (1 - a) y[t-1] + a x[t], a = 2 / (period + 1), of   *)
(* ewm(span=period, adjust=False).mean() has the closed form of Ewm.       *)
(***************************************************************************)

Bars(n, a, c, b) == [some |-> TRUE, len |-> n, base |-> a, prev |-> c,
                     last |-> b]

\* for period in (10, 20, 50, 200)                       (lines 50-53)
Periods == <<10, 20, 50, 200>>

\* series lengths around every period, for calculate_ema on its own
AnySeries == {Bars(n, 10000, 0, 9500) :
                 n \in {9, 10, 19, 20, 49, 50, 199, 200}}

\* series _fetch_with_cache hands to the handlers (at least MinRows bars):
\* price above EMA-10/20 and below EMA-50/200; above EMA-10 only; above all;
\* EMAs that round to 0.00 under a price of 0.01
HealthSeries == {Bars(199, 10000, 0, 9500), Bars(200, 10000, 0, 9500),
                 Bars(200, 10000, 0, 8500), Bars(MinRows, 10000, 0, 10000),
                 Bars(200, 0, 0, 1)}

\* data['Close'].ewm(span=period, adjust=False).mean().iloc[-1], as an exact
\* fraction                                              (line 96)
Ewm(data, period) ==
    [some |-> TRUE,
     num |-> (period - 1) * (data.base * (period + 1)
                                + 2 * (data.prev - data.base))
             + 2 * data.last * (period + 1),
     den |-> (period + 1) * (period + 1)]

\* mutant of calculate_ema: a series one bar short still gets a value
calculate_ema_short(data, period) ==
    IF data.len < period - 1 THEN NoEma ELSE Ewm(data, period)

\* calculate_ema(data, period)                           (lines 92-96)
calculate_ema(data, period) ==
    IF data.len < period THEN NoEma ELSE Ewm(data, period)

\* round(float(ema), 2) if ema is not None else None     (lines 57-60)
Rounded(e) == IF e.some THEN [some |-> TRUE, v |-> RoundDiv(e.num, e.den)]
              ELSE Absent

\* the computation of get_ema_data                       (lines 48-61)
EmaResult(stock_data) ==
    [some |-> TRUE,
     current_price |-> stock_data.last,
     ema |-> [i \in 1..4 |->
                Rounded(IF stock_data.len >= Periods[i]
                        THEN calculate_ema(stock_data, Periods[i])
                        ELSE NoEma)]]

\* get_ema_data(stock_data, cache_key) on date d         (lines 41-63)
get_ema_data(cache, stock_data, cache_key, d) ==
    IF cache[cache_key][d].some
    THEN [cache |-> cache, result |-> cache[cache_key][d], hit |-> TRUE]
    ELSE LET result == EmaResult(stock_data)
         IN  [cache |-> [cache EXCEPT ![cache_key][d] = result],
              result |-> result, hit |-> FALSE]

\* the truth value Python gives v in `v and ...`: None and 0.0 are false
Truthy(v) == v.some /\ v.v # 0

\* def _status(v): return 'Above' if v and current_price > v
\*                        else ('Below' if v else 'N/A')   (lines 542-543)
Status(v, current_price) ==
    IF Truthy(v) /\ current_price > v.v THEN "Above"
    ELSE IF Truthy(v) THEN "Below"
    ELSE "N/A"

\* bullish_signals: one entry per EMA that is not None    (lines 534-540)
BullishSignals(ema, current_price) ==
    [above |-> Cardinality({i \in 1..4 : ema[i].some /\ current_price > ema[i].v}),
     total |-> Cardinality({i \in 1..4 : ema[i].some})]

\* health_data                                            (lines 545-555)
HealthData(symbol, result) ==
    LET sig == BullishSignals(result.ema, result.current_price)
    IN  [symbol |-> symbol,
         current_price |-> result.current_price,
         ema |-> result.ema,
         status |-> [i \in 1..4 |-> Status(result.ema[i], result.current_price)],
         bullish_count |-> sig.above,
         total_emas |-> sig.total]

\* the loop over the symbols: a symbol without data is skipped, the others
\* get their item from get_ema_data                       (lines 523-556)
RECURSIVE HealthLoop(_, _, _, _)
HealthLoop(cache, todo, data, d) ==
    IF todo = <<>> THEN [cache |-> cache, items |-> <<>>]
    ELSE LET symbol == Head(todo)
         IN  IF ~data[symbol].some
             THEN HealthLoop(cache, Tail(todo), data, d)
             ELSE LET e == get_ema_data(cache, data[symbol], symbol, d)
                      rest == HealthLoop(e.cache, Tail(todo), data, d)
                  IN  [cache |-> rest.cache,
                       items |-> <<HealthData(symbol, e.result)>> \o rest.items]

\* technical_health.sort(key=lambda x: x['symbol'])       (line 559)
SymbolRank(sym) == IF sym = "A" THEN 1 ELSE IF sym = "B" THEN 2 ELSE 3
RECURSIVE Insert(_, _)
Insert(item, sorted) ==
    IF sorted = <<>> THEN <<item>>
    ELSE IF SymbolRank(item.symbol) < SymbolRank(Head(sorted).symbol)
    THEN <<item>> \o sorted
    ELSE <<Head(sorted)>> \o Insert(item, Tail(sorted))
RECURSIVE SortBySymbol(_)
SortBySymbol(items) ==
    IF items = <<>> THEN <<>>
    ELSE Insert(Head(items), SortBySymbol(Tail(items)))

\* mutant of IsBullish: more than half of the EMAs
IsBullishStrict(item) ==
    item.total_emas > 0 /\ 2 * item.bullish_count > item.total_emas

\* stock['total_emas'] > 0 and
\* stock['bullish_count'] / stock['total_emas'] >= 0.5    (lines 564-565)
IsBullish(item) ==
    item.total_emas > 0 /\ 2 * item.bullish_count >= item.total_emas

\* summary                                                (lines 562-571)
HealthSummary(items) ==
    LET bullish == Cardinality({i \in DOMAIN items : IsBullish(items[i])})
    IN  [total |-> Len(items), bullish |-> bullish,
         bearish |-> Len(items) - bullish]

\* the orders in which symbols_data lists the symbols of the active orders
SymbolOrders == {<<>>, <<"A">>, <<"B">>, <<"B", "A">>}
SymbolsOf(order) == {order[i] : i \in DOMAIN order}
\* market_indices, cut down to one index
IndexOrder == <<"INDEX_N">>

\* calculate_ema applied to a series and a period
CalculateEma ==
    \E data \in AnySeries, i \in 1..4 :
        /\ emaEv' = [NoEmaEvent EXCEPT !.op = "calculate_ema",
                        !.series = data, !.period = Periods[i],
                        !.value = calculate_ema(data, Periods[i])]
        /\ health' = NoHealth
        /\ UNCHANGED ema_cache
        /\ UNCHANGED <<fileVars, apiVars, riskVars, sweepVars>>

\* get_ema_data applied to a series and a cache key
GetEmaData ==
    \E k \in EmaKeys, data \in HealthSeries :
        LET e == get_ema_data(ema_cache, data, k, today)
        IN  /\ ema_cache' = e.cache
            /\ emaEv' = [NoEmaEvent EXCEPT !.op = "get_ema_data", !.key = k,
                            !.series = data, !.hit = e.hit,
                            !.result = e.result]
            /\ health' = NoHealth
            /\ UNCHANGED <<fileVars, apiVars, riskVars, sweepVars>>

\* get_technical_health from the loop over the symbols to the payload; data
\* is what get_stock_data_with_cache returns for each symbol (lines 522-577)
TechnicalHealthItems ==
    \E order \in SymbolOrders :
      \E data \in [SymbolsOf(order) -> HealthSeries \cup {NoSeries}] :
        LET l == HealthLoop(ema_cache, order, data, today)
            items == SortBySymbol(l.items)
        IN  /\ ema_cache' = l.cache
            /\ health' = [op |-> "technical_health", status |-> "ok",
                          items |-> items, summary |-> HealthSummary(items)]
            /\ emaEv' = NoEmaEvent
            /\ UNCHANGED <<fileVars, apiVars, riskVars, sweepVars>>

\* get_market_health from the loop over the indices to the payload
\* (lines 641-694)
MarketHealthItems ==
    \E data \in [{"INDEX_N"} -> HealthSeries \cup {NoSeries}] :
        LET l == HealthLoop(ema_cache, IndexOrder, data, today)
        IN  /\ ema_cache' = l.cache
            /\ health' = [op |-> "market_health", status |-> "ok",
                          items |-> l.items,
                          summary |-> HealthSummary(l.items)]
            /\ emaEv' = NoEmaEvent
            /\ UNCHANGED <<fileVars, apiVars, riskVars, sweepVars>>

InitEma ==
    EmaAtRest /\ FilesAtRest /\ ApiAtRest /\ RiskAtRest /\ SweepAtRest

NextEma ==
    \/ CalculateEma
    \/ GetEmaData
    \/ TechnicalHealthItems
    \/ MarketHealthItems

SpecEma == InitEma /\ [][NextEma]_vars

(***************************************************************************)
(*                    CLAIMS ABOUT EMA ANALYSIS                            *)
(***************************************************************************)

\* C13: calculate_ema returns None for every series with fewer than period
\* bars and a value for every series with period bars or more; when
\* get_ema_data computes a result (lines 48-61) each of EMA-10, EMA-20,
\* EMA-50 and EMA-200 is present exactly when the series has that many bars,
\* so a series of 50 to 199 bars has EMA-10, EMA-20, EMA-50 and no EMA-200.
C13_EmaGating ==
    /\ emaEv.op = "calculate_ema" =>
          (emaEv.value.some <=> emaEv.series.len >= emaEv.period)
    /\ (emaEv.op = "get_ema_data" /\ ~emaEv.hit) =>
          /\ \A i \in 1..4 :
                emaEv.result.ema[i].some <=> emaEv.series.len >= Periods[i]
          /\ (emaEv.series.len >= 50 /\ emaEv.series.len <= 199) =>
                /\ emaEv.result.ema[1].some
                /\ emaEv.result.ema[2].some
                /\ emaEv.result.ema[3].some
                /\ ~emaEv.result.ema[4].some
          /\ ema_cache[emaEv.key][today] = emaEv.result

\* C13 witness: get_ema_data has computed the result of a series of 199
\* bars: three EMAs and no EMA-200.
C13_Witness ==
    /\ emaEv.op = "get_ema_data"
    /\ ~emaEv.hit
    /\ emaEv.series.len = 199
    /\ emaEv.result.ema[3].some
    /\ ~emaEv.result.ema[4].some

\* C14 as stated: in every technical-health and market-health item each EMA
\* status is 'Above' exactly when the EMA is present and the current price
\* is above it, 'Below' exactly when it is present and the current price is
\* not above it, and 'N/A' exactly when the EMA is absent, for every EMA
\* value, 0 included.
C14_StatusByPresence ==
    \A n \in DOMAIN health.items :
        LET it == health.items[n]
        IN  \A i \in 1..4 :
              /\ it.status[i] = "Above" <=>
                    (it.ema[i].some /\ it.current_price > it.ema[i].v)
              /\ it.status[i] = "Below" <=>
                    (it.ema[i].some /\ it.current_price <= it.ema[i].v)
              /\ it.status[i] = "N/A" <=> ~it.ema[i].some

Word(w)    == [date |-> FALSE, day |-> 0, word |-> w]
DateTok(d) == [date |-> TRUE, day |-> d, word |-> ""]
FileName(parts, ext) == [parts |-> parts, ext |-> ext]

\* def cleanup_old_cache(days_to_keep=3)
DefaultKeep == 3
KeepChoices == {0, DefaultKeep}
\* the dates on which the server is started
SweepDates == {5, 6}

\* what may lie in DATA_DIR when the server starts
FileNames ==
    {FileName(<<Word("A"), DateTok(d)>>, "json") : d \in {1, 2, 5, 6}}
    \cup {FileName(<<Word("INDEX"), Word("N"), DateTok(1)>>, "json"),
          FileName(<<DateTok(1)>>, "json"),
          FileName(<<DateTok(1), Word("bak")>>, "json"),
          FileName(<<Word("A"), Word("latest")>>, "json"),
          FileName(<<Word("A"), DateTok(1)>>, "tmp")}

\* DATA_DIR.glob("*.json")                                (line 70)
Globbed(dir) == {f \in dir : f.ext = "json"}

\* date_str = f.stem.split('_')[-1]                       (line 72)
DateStr(f) == f.parts[Len(f.parts)]

\* datetime.strptime(date_str, '%Y-%m-%d') raises ValueError on a string that
\* is not a date; the except clause passes               (lines 73, 77-78)
Parses(tok) == tok.date

\* mutant of Expired: a file of exactly days_to_keep days is removed too
ExpiredInclusive(today_, file_date, days_to_keep) ==
    today_ - file_date >= days_to_keep

\* (today - file_date).days > days_to_keep                (line 74)
Expired(today_, file_date, days_to_keep) ==
    today_ - file_date > days_to_keep

\* the files cleanup_old_cache unlinks                    (lines 70-78)
Removed(dir, today_, days_to_keep) ==
    {f \in Globbed(dir) :
        /\ Parses(DateStr(f))
        /\ Expired(today_, DateStr(f).day, days_to_keep)}

\* cleanup_old_cache(days_to_keep) at server start        (lines 66-80, 745)
cleanup_old_cache ==
    \E days_to_keep \in KeepChoices, t \in SweepDates :
        /\ data_dir' = data_dir \ Removed(data_dir, t, days_to_keep)
        /\ sweep' = [done |-> TRUE, days_to_keep |-> days_to_keep,
                     today |-> t, before |-> data_dir]
        /\ UNCHANGED <<fileVars, apiVars, riskVars, emaVars>>

InitSweep ==
    /\ data_dir \in SUBSET FileNames
    /\ sweep = NoSweep
    /\ FilesAtRest /\ ApiAtRest /\ RiskAtRest /\ EmaAtRest

NextSweep == cleanup_old_cache

SpecSweep == InitSweep /\ [][NextSweep]_vars

\* the trailing date of a file name, if it has one
TrailingDate(f) == f.parts[Len(f.parts)]

\* C16: cleanup_old_cache(N) deletes the .json files whose trailing date is
\* more than N days before the current date and leaves every other file in
\* place: files dated within the last N days (today's among them) or later,
\* and files whose trailing part is not a date, are never deleted.
C16_SweepDeletesOnlyOld ==
    sweep.done =>
        /\ data_dir \subseteq sweep.before
        /\ \A f \in sweep.before :
              f \notin data_dir <=>
                  /\ f.ext = "json"
                  /\ TrailingDate(f).date
                  /\ sweep.today - TrailingDate(f).day > sweep.days_to_keep

\* C16 witness: a sweep with N = 3 has deleted a file dated four days back
\* and has left a file dated three days back, today's file and a file
\* without a trailing date.
C16_Witness ==
    /\ sweep.done
    /\ sweep.days_to_keep = 3
    /\ \E f \in sweep.before \ data_dir :
          sweep.today - TrailingDate(f).day = 4
    /\ \E f \in data_dir :
          TrailingDate(f).date /\ sweep.today - TrailingDate(f).day = 3
    /\ \E f \in data_dir :
          TrailingDate(f).date /\ TrailingDate(f).day = sweep.today
    /\ \E f \in data_dir : ~TrailingDate(f).date

\* C22 as stated: get_ema_data returns the current price and the EMA values
\* of the series it is given: the current price is the last close, each EMA
\* is present exactly when the series has that many bars and is then the
\* EMA of that series to two decimals, also when the series of the key has
\* changed since the first call of the date.
C22_EmaOfGivenSeries ==
    emaEv.op = "get_ema_data" =>
        /\ emaEv.result.current_price = emaEv.series.last
        /\ \A i \in 1..4 :
              LET e == emaEv.result.ema[i]
                  x == Ewm(emaEv.series, Periods[i])
              IN  /\ e.some <=> emaEv.series.len >= Periods[i]
                  /\ e.some => Nearest(e.v, x.num, x.den)

====
